---- MODULE Spec2Model ----
(***************************************************************************)
(* Notebook PDF generator (src/main.py): load_topics_from_csv, the         *)
(* NotebookPDF header/footer callbacks, create_pages_for_topic,            *)
(* generate_notebook_pdf and main, as one sequential state machine.        *)
(*                                                                         *)
(* Text is a tuple of one-character strings, so that str.lower() and int() *)
(* are computed character by character.                                    *)
(***************************************************************************)
EXTENDS Integers, Sequences, FiniteSets

VARIABLES
    entry,           \* "main": main() runs; "generate": generate_notebook_pdf(topics) is called directly
    file,            \* the resource topics.csv: [status, lines]
    topics,          \* the record list handed to generate_notebook_pdf
    pc,              \* position in the program
    called,          \* generate_notebook_pdf has been entered
    pdf,             \* the NotebookPDF instance exists
    _current_topic,  \* NotebookPDF._current_topic (pending label)
    _page_topic,     \* NotebookPDF._page_topic (committed label)
    page,            \* FPDF.page: number of pages of the document
    idx,             \* record index of the loop at line 184
    page_count,      \* int(topic_data["Pages"]) of the current record
    page_num,        \* loop counter of range(page_count) at line 150
    log,             \* what the callbacks drew, in order: [kind, page, txt, rec]
    outputCalls,     \* number of pdf.output(...) calls
    outfile,         \* the output file: "absent", "partial" or "complete"
    exc,             \* the last exception raised: [type, line]
    propagated,      \* the exception left the entry function
    diag             \* the diagnostic main printed

vars == << entry, file, topics, pc, called, pdf, _current_topic, _page_topic, page,
           idx, page_count, page_num, log, outputCalls, outfile, exc, propagated, diag >>

----------------------------------------------------------------------------
(* Bounds *)

\* most data rows of the file / records of a direct call
MaxRows == 3

----------------------------------------------------------------------------
(* Text *)

None == << "None" >>          \* Python's None (no text has a character "None")
EmptyText == << >>            \* ""

Math == << "M", "a", "t", "h" >>
Art  == << "A", "r", "t" >>
TopicNames == { Math, Art }

\* the Pages cells of the model: "0", "1", "2", "-1", "x"
PagesTexts == { << "0" >>, << "1" >>, << "2" >>, << "-", "1" >>, << "x" >> }

Digits == { "0", "1", "2", "3", "4", "5", "6", "7", "8", "9" }

DigitVal(c) ==
    CASE c = "0" -> 0 [] c = "1" -> 1 [] c = "2" -> 2 [] c = "3" -> 3 [] c = "4" -> 4
      [] c = "5" -> 5 [] c = "6" -> 6 [] c = "7" -> 7 [] c = "8" -> 8 [] OTHER -> 9

\* str.lower() of one character
LowerChar(c) ==
    CASE c = "M" -> "m" [] c = "A" -> "a" [] OTHER -> c

\* str.lower(), line 119
Lower(s) == [ i \in 1..Len(s) |-> LowerChar(s[i]) ]

RECURSIVE StripLeft(_)
StripLeft(s) == IF s # << >> /\ Head(s) = " " THEN StripLeft(Tail(s)) ELSE s

RECURSIVE StripRight(_)
StripRight(s) ==
    IF s # << >> /\ s[Len(s)] = " " THEN StripRight(SubSeq(s, 1, Len(s) - 1)) ELSE s

RECURSIVE DigitsVal(_)
DigitsVal(s) ==
    IF s = << >> THEN 0 ELSE 10 * DigitsVal(SubSeq(s, 1, Len(s) - 1)) + DigitVal(s[Len(s)])

\* int(v), line 186: None is a TypeError; text is stripped, takes an optional sign and
\* at least one digit, and anything else is a ValueError
ParseInt(v) ==
    IF v = None THEN [ ok |-> FALSE, val |-> 0, err |-> "TypeError" ]
    ELSE LET s == StripRight(StripLeft(v))
             signed == s # << >> /\ Head(s) \in { "-", "+" }
             body == IF signed THEN Tail(s) ELSE s
             n == DigitsVal(body)
         IN IF body = << >> \/ \E i \in 1..Len(body) : body[i] \notin Digits
            THEN [ ok |-> FALSE, val |-> 0, err |-> "ValueError" ]
            ELSE [ ok |-> TRUE, val |-> IF signed /\ Head(s) = "-" THEN 0 - n ELSE n,
                   err |-> "none" ]

\* len(range(page_count)), line 150
RangeLen_off(n) == IF n >= 0 THEN n + 1 ELSE 0

RangeLen(n) == IF n > 0 THEN n ELSE 0

----------------------------------------------------------------------------
(* Inputs *)

SeqUpTo(S, n) == UNION { [ 1..k -> S ] : k \in 0..n }

HeaderTP == << << "T", "o", "p", "i", "c" >>, << "P", "a", "g", "e", "s" >> >>
HeaderT  == << << "T", "o", "p", "i", "c" >> >>

\* data rows under the header Topic,Pages: both cells, the Pages cell missing, a blank line
RowsTP == { << t, p >> : t \in TopicNames, p \in PagesTexts }
            \cup { << t >> : t \in TopicNames } \cup { << >> }

\* data rows under the header Topic
RowsT == { << t >> : t \in TopicNames }

NoFile == [ status |-> "ok", lines |-> << >> ]

Files ==
    { [ status |-> "missing", lines |-> << >> ], [ status |-> "unreadable", lines |-> << >> ],
      NoFile }
    \cup { [ status |-> "ok", lines |-> << HeaderTP >> \o rows ] : rows \in SeqUpTo(RowsTP, MaxRows) }
    \cup { [ status |-> "ok", lines |-> << HeaderT >> \o rows ] : rows \in SeqUpTo(RowsT, MaxRows) }

\* records a caller of generate_notebook_pdf may build: dictionaries over the keys
\* "Topic" and "Pages", either of which may be absent
Records ==
    { [ k \in { "Topic", "Pages" } |-> IF k = "Topic" THEN t ELSE p ] :
          t \in TopicNames, p \in PagesTexts \cup { None } }
    \cup { [ k \in { "Topic" } |-> Math ], [ k \in { "Pages" } |-> << "1" >> ] }

KeyName(f) == IF f = HeaderTP[1] THEN "Topic" ELSE IF f = HeaderTP[2] THEN "Pages" ELSE "other"

\* one row of csv.DictReader: the cells zipped with the field names, None for the
\* cells a short row lacks (restval), the surplus cells under the key None (restkey)
DictRow(fieldnames, row) ==
    LET keys == { KeyName(fieldnames[i]) : i \in 1..Len(fieldnames) }
                   \cup (IF Len(row) > Len(fieldnames) THEN { "None" } ELSE { })
        At(k) == CHOOSE i \in 1..Len(fieldnames) : KeyName(fieldnames[i]) = k
    IN [ k \in keys |->
           IF k = "None" THEN SubSeq(row, Len(fieldnames) + 1, Len(row))
           ELSE IF At(k) <= Len(row) THEN row[At(k)] ELSE None ]

RECURSIVE DictRows(_, _)
DictRows(fieldnames, rows) ==
    IF rows = << >> THEN << >>
    ELSE IF Head(rows) = << >> THEN DictRows(fieldnames, Tail(rows))   \* blank lines are skipped
    ELSE << DictRow(fieldnames, Head(rows)) >> \o DictRows(fieldnames, Tail(rows))

\* list(csv.DictReader(file)), lines 35-38: the first line names the fields
DictReader(lines) == IF lines = << >> THEN << >> ELSE DictRows(Head(lines), Tail(lines))

NoExc == [ type |-> "none", line |-> 0 ]

\* load_topics_from_csv, lines 33-42, returning a missing file as an empty list
load_topics_from_csv_empty(f) ==
    IF f.status = "unreadable"
    THEN [ ok |-> FALSE, value |-> << >>, exc |-> [ type |-> "csv.Error", line |-> 42 ] ]
    ELSE [ ok |-> TRUE, value |-> DictReader(f.lines), exc |-> NoExc ]

\* load_topics_from_csv, lines 33-42
load_topics_from_csv(f) ==
    IF f.status = "missing"
    THEN [ ok |-> FALSE, value |-> << >>, exc |-> [ type |-> "FileNotFoundError", line |-> 40 ] ]
    ELSE IF f.status = "unreadable"
    THEN [ ok |-> FALSE, value |-> << >>, exc |-> [ type |-> "csv.Error", line |-> 42 ] ]
    ELSE [ ok |-> TRUE, value |-> DictReader(f.lines), exc |-> NoExc ]

----------------------------------------------------------------------------
(* State after construction *)

Init ==
    /\ \/ entry = "main" /\ file \in Files /\ topics = << >> /\ pc = "main"
       \/ entry = "generate" /\ file = NoFile /\ topics \in SeqUpTo(Records, MaxRows)
            /\ pc = "generate"
    /\ called = FALSE
    /\ pdf = FALSE
    /\ _current_topic = EmptyText
    /\ _page_topic = EmptyText
    /\ page = 0
    /\ idx = 0
    /\ page_count = 0
    /\ page_num = 0
    /\ log = << >>
    /\ outputCalls = 0
    /\ outfile = "absent"
    /\ exc = NoExc
    /\ propagated = FALSE
    /\ diag = "none"

inputVars == << entry, file >>
labelVars == << _current_topic, _page_topic >>
loopVars  == << idx, page_count, page_num >>
endVars   == << propagated, diag >>

----------------------------------------------------------------------------
(* main, lines 204-229 *)

\* lines 207, 33-38: the file is read and its rows become the records
LoadOk ==
    /\ pc = "main"
    /\ load_topics_from_csv(file).ok
    /\ topics' = load_topics_from_csv(file).value
    /\ pc' = "generate"
    /\ UNCHANGED << inputVars, called, pdf, labelVars, page, loopVars, log, outputCalls,
                    outfile, exc, endVars >>

\* lines 207, 39-42: open() or the reader raised
LoadRaise ==
    /\ pc = "main"
    /\ ~ load_topics_from_csv(file).ok
    /\ exc' = load_topics_from_csv(file).exc
    /\ pc' = "raised"
    /\ UNCHANGED << inputVars, topics, called, pdf, labelVars, page, loopVars, log,
                    outputCalls, outfile, endVars >>

\* the except clauses of main, lines 216-229, in order
MainHandler(type) ==
    CASE type = "FileNotFoundError" -> "not_found"
      [] type = "csv.Error" -> "csv_error"
      [] type \in { "ValueError", "KeyError" } -> "data_error"
      [] OTHER -> "unexpected"

\* lines 216-229: main prints the diagnostic of the clause that matches and returns
MainCatch ==
    /\ pc = "raised"
    /\ entry = "main"
    /\ diag' = MainHandler(exc.type)
    /\ pc' = "done"
    /\ UNCHANGED << inputVars, topics, called, pdf, labelVars, page, loopVars, log,
                    outputCalls, outfile, exc, propagated >>

\* a direct call of generate_notebook_pdf: the exception reaches the caller
Propagate ==
    /\ pc = "raised"
    /\ entry = "generate"
    /\ propagated' = TRUE
    /\ pc' = "done"
    /\ UNCHANGED << inputVars, topics, called, pdf, labelVars, page, loopVars, log,
                    outputCalls, outfile, exc, diag >>

\* line 214 (main), or the return of a direct call
Return ==
    /\ pc = "returned"
    /\ diag' = IF entry = "main" THEN "success" ELSE diag
    /\ pc' = "done"
    /\ UNCHANGED << inputVars, topics, called, pdf, labelVars, page, loopVars, log,
                    outputCalls, outfile, exc, propagated >>

----------------------------------------------------------------------------
(* generate_notebook_pdf, lines 170-195 *)

required_keys == << "Topic", "Pages" >>

\* lines 175-178 checking the first record only
MissingKey_first(ts) ==
    IF ts # << >> /\ \E k \in 1..Len(required_keys) : required_keys[k] \notin DOMAIN ts[1]
    THEN 1 ELSE 0

\* lines 175-178: the first record that lacks a required key, 0 when none does
MissingKey(ts) ==
    IF \E i \in 1..Len(ts) : \E k \in 1..Len(required_keys) : required_keys[k] \notin DOMAIN ts[i]
    THEN CHOOSE i \in 1..Len(ts) :
            /\ \E k \in 1..Len(required_keys) : required_keys[k] \notin DOMAIN ts[i]
            /\ \A j \in 1..(i - 1) :
                  \A k \in 1..Len(required_keys) : required_keys[k] \in DOMAIN ts[j]
    ELSE 0

\* lines 170-171
GenEmpty ==
    /\ pc = "generate"
    /\ topics = << >>
    /\ called' = TRUE
    /\ exc' = [ type |-> "ValueError", line |-> 171 ]
    /\ pc' = "raised"
    /\ UNCHANGED << inputVars, topics, pdf, labelVars, page, loopVars, log, outputCalls,
                    outfile, endVars >>

\* lines 174-178
GenMissingKey ==
    /\ pc = "generate"
    /\ topics # << >>
    /\ MissingKey(topics) # 0
    /\ called' = TRUE
    /\ exc' = [ type |-> "KeyError", line |-> 178 ]
    /\ pc' = "raised"
    /\ UNCHANGED << inputVars, topics, pdf, labelVars, page, loopVars, log, outputCalls,
                    outfile, endVars >>

\* lines 181, 61-70: NotebookPDF() with both labels empty and no page
GenCreatePDF ==
    /\ pc = "generate"
    /\ topics # << >>
    /\ MissingKey(topics) = 0
    /\ called' = TRUE
    /\ pdf' = TRUE
    /\ _current_topic' = EmptyText
    /\ _page_topic' = EmptyText
    /\ page' = 0
    /\ pc' = "loop"
    /\ UNCHANGED << inputVars, topics, loopVars, log, outputCalls, outfile, exc, endVars >>

\* lines 185-186 for one record: the two lookups, then int()
ReadRecord(r) ==
    IF "Topic" \notin DOMAIN r THEN [ ok |-> FALSE, val |-> 0, err |-> "KeyError", line |-> 185 ]
    ELSE IF "Pages" \notin DOMAIN r THEN [ ok |-> FALSE, val |-> 0, err |-> "KeyError", line |-> 186 ]
    ELSE [ ok |-> ParseInt(r["Pages"]).ok, val |-> ParseInt(r["Pages"]).val,
           err |-> ParseInt(r["Pages"]).err, line |-> 186 ]

\* lines 184-186: the next record, its page count parsed
LoopRecord ==
    /\ pc = "loop"
    /\ idx < Len(topics)
    /\ idx' = idx + 1
    /\ LET r == ReadRecord(topics[idx + 1])
       IN IF r.ok
          THEN /\ page_count' = r.val
               /\ page_num' = 0
               /\ pc' = "pages"
               /\ exc' = exc
          ELSE /\ exc' = [ type |-> r.err, line |-> r.line ]
               /\ pc' = "raised"
               /\ UNCHANGED << page_count, page_num >>
    /\ UNCHANGED << inputVars, topics, called, pdf, labelVars, page, log, outputCalls,
                    outfile, endVars >>

\* line 184: no record is left
LoopEnd ==
    /\ pc = "loop"
    /\ idx = Len(topics)
    /\ pc' = "output"
    /\ UNCHANGED << inputVars, topics, called, pdf, labelVars, page, loopVars, log,
                    outputCalls, outfile, exc, endVars >>

----------------------------------------------------------------------------
(* create_pages_for_topic, lines 150-153, and the callbacks, lines 72-119 *)

\* set_topic writing both labels
set_topic_both(topic) ==
    /\ _current_topic' = topic
    /\ _page_topic' = topic

\* set_topic, line 79
set_topic(topic) ==
    /\ _current_topic' = topic
    /\ _page_topic' = _page_topic

\* lines 150-151: one more page is due, and the pending label is set
SetTopic ==
    /\ pc = "pages"
    /\ page_num < RangeLen(page_count)
    /\ set_topic(topics[idx]["Topic"])
    /\ pc' = "add_page"
    /\ UNCHANGED << inputVars, topics, called, pdf, page, loopVars, log, outputCalls,
                    outfile, exc, endVars >>

\* line 150: range(page_count) is used up
PagesDone ==
    /\ pc = "pages"
    /\ page_num >= RangeLen(page_count)
    /\ pc' = "loop"
    /\ UNCHANGED << inputVars, topics, called, pdf, labelVars, page, loopVars, log,
                    outputCalls, outfile, exc, endVars >>

\* the text footer() draws, reading the pending label
FooterText_pending == Lower(_current_topic)

\* the text footer() draws, line 119
FooterText == Lower(_page_topic)

\* footer(), lines 104-119, on the page being closed
footer ==
    /\ log' = Append(log, [ kind |-> "footer", page |-> page, txt |-> FooterText, rec |-> 0 ])
    /\ UNCHANGED << labelVars, page >>

\* header(), lines 81-102, on the page just begun; rec notes the record the caller is at
header(rec) ==
    /\ _page_topic' = _current_topic
    /\ _current_topic' = _current_topic
    /\ page' = page + 1
    /\ log' = Append(log, [ kind |-> "header", page |-> page + 1, txt |-> _current_topic,
                            rec |-> rec ])

\* line 153, add_page(): the engine closes the open page, firing its footer
AddPageFooter ==
    /\ pc = "add_page"
    /\ page > 0
    /\ footer
    /\ pc' = "begin_page"
    /\ UNCHANGED << inputVars, topics, called, pdf, loopVars, outputCalls, outfile, exc,
                    endVars >>

\* lines 150-153 with header() also called by hand after add_page()
AddPageHeader_twice ==
    /\ \/ pc = "add_page" /\ page = 0
       \/ pc = "begin_page"
    /\ _page_topic' = _current_topic
    /\ _current_topic' = _current_topic
    /\ page' = page + 1
    /\ log' = log \o << [ kind |-> "header", page |-> page + 1, txt |-> _current_topic,
                          rec |-> idx ],
                        [ kind |-> "header", page |-> page + 1, txt |-> _current_topic,
                          rec |-> idx ] >>
    /\ page_num' = page_num + 1
    /\ pc' = "pages"
    /\ UNCHANGED << inputVars, topics, called, pdf, idx, page_count, outputCalls, outfile,
                    exc, endVars >>

\* line 153, add_page(): the engine begins the page, firing its header
AddPageHeader ==
    /\ \/ pc = "add_page" /\ page = 0
       \/ pc = "begin_page"
    /\ header(idx)
    /\ page_num' = page_num + 1
    /\ pc' = "pages"
    /\ UNCHANGED << inputVars, topics, called, pdf, idx, page_count, outputCalls, outfile,
                    exc, endVars >>

----------------------------------------------------------------------------
(* pdf.output(output_file), lines 191-195 *)

\* line 192: output is called
Output ==
    /\ pc = "output"
    /\ outputCalls' = outputCalls + 1
    /\ pc' = "close"
    /\ UNCHANGED << inputVars, topics, called, pdf, labelVars, page, loopVars, log, outfile,
                    exc, endVars >>

\* line 192, output() on a document without pages: the engine adds one
CloseAddPage ==
    /\ pc = "close"
    /\ page = 0
    /\ header(0)
    /\ pc' = "close"
    /\ UNCHANGED << inputVars, topics, called, pdf, loopVars, outputCalls, outfile, exc,
                    endVars >>

\* line 192, output(): the engine closes the last page, firing its footer
CloseFooter ==
    /\ pc = "close"
    /\ page > 0
    /\ footer
    /\ pc' = "write"
    /\ UNCHANGED << inputVars, topics, called, pdf, loopVars, outputCalls, outfile, exc,
                    endVars >>

\* lines 192-193: the file is written
WriteOk ==
    /\ pc = "write"
    /\ outfile' = "complete"
    /\ pc' = "returned"
    /\ UNCHANGED << inputVars, topics, called, pdf, labelVars, page, loopVars, log,
                    outputCalls, exc, endVars >>

\* lines 192-195: the file cannot be opened for writing
WriteFailOpen ==
    /\ pc = "write"
    /\ exc' = [ type |-> "RuntimeError", line |-> 195 ]
    /\ pc' = "raised"
    /\ UNCHANGED << inputVars, topics, called, pdf, labelVars, page, loopVars, log,
                    outputCalls, outfile, endVars >>

\* lines 192-195: writing fails after the file was opened; nothing removes the file
WriteFailPartial ==
    /\ pc = "write"
    /\ outfile' = "partial"
    /\ exc' = [ type |-> "RuntimeError", line |-> 195 ]
    /\ pc' = "raised"
    /\ UNCHANGED << inputVars, topics, called, pdf, labelVars, page, loopVars, log,
                    outputCalls, endVars >>

----------------------------------------------------------------------------

Next ==
    \/ LoadOk
    \/ LoadRaise
    \/ MainCatch
    \/ Propagate
    \/ Return
    \/ GenEmpty
    \/ GenMissingKey
    \/ GenCreatePDF
    \/ LoopRecord
    \/ LoopEnd
    \/ SetTopic
    \/ PagesDone
    \/ AddPageFooter
    \/ AddPageHeader
    \/ Output
    \/ CloseAddPage
    \/ CloseFooter
    \/ WriteOk
    \/ WriteFailOpen
    \/ WriteFailPartial

Spec == Init /\ [][Next]_vars

----------------------------------------------------------------------------
(* Vocabulary of the properties *)

HasKeys(r) == "Topic" \in DOMAIN r /\ "Pages" \in DOMAIN r

\* the Pages value is text that is not an integer literal
NonNumericPages(r) ==
    HasKeys(r) /\ r["Pages"] # None /\ ~ ParseInt(r["Pages"]).ok

\* a valid record: Topic present, Pages a non-negative integer
ValidRecord(r) ==
    /\ HasKeys(r)
    /\ r["Topic"] # None
    /\ ParseInt(r["Pages"]).ok
    /\ ParseInt(r["Pages"]).val >= 0

\* the pages a record asks for
PagesDue(r) ==
    IF HasKeys(r) /\ ParseInt(r["Pages"]).ok /\ ParseInt(r["Pages"]).val > 0
    THEN ParseInt(r["Pages"]).val ELSE 0

\* the pages the first i records ask for
RECURSIVE Cum(_, _)
Cum(ts, i) == IF i = 0 THEN 0 ELSE Cum(ts, i - 1) + PagesDue(ts[i])

\* page k is one of the pages of record i, by the cumulative counts
PageOfRecord(k, i) == Cum(topics, i - 1) < k /\ k <= Cum(topics, i)

Events(kind, k) == { e \in 1..Len(log) : log[e].kind = kind /\ log[e].page = k }

Finished == outfile = "complete"

NoEffect == ~ pdf /\ page = 0 /\ log = << >> /\ outputCalls = 0 /\ outfile = "absent"

HeaderStep == Len(log') = Len(log) + 1 /\ log'[Len(log')].kind = "header"
FooterStep == Len(log') = Len(log) + 1 /\ log'[Len(log')].kind = "footer"
SetTopicStep == pc = "pages" /\ pc' = "add_page"

----------------------------------------------------------------------------
(* C1: what header() and footer() drew on a page of a record is that record's Topic
   and that Topic lower-cased, and every page of a finished document has both. *)
C1_LabelsMatchRecord ==
    /\ \A e \in 1..Len(log) : \A i \in 1..Len(topics) :
          PageOfRecord(log[e].page, i) =>
             /\ log[e].kind = "header" => log[e].txt = topics[i]["Topic"]
             /\ log[e].kind = "footer" => log[e].txt = Lower(topics[i]["Topic"])
    /\ Finished => \A k \in 1..page : Events("header", k) # { } /\ Events("footer", k) # { }

\* the document of Math x 2, Art x 1 is finished with three pages
C1_Witness ==
    /\ Finished
    /\ Len(topics) = 2
    /\ topics[1] = [ k \in { "Topic", "Pages" } |-> IF k = "Topic" THEN Math ELSE << "2" >> ]
    /\ topics[2] = [ k \in { "Topic", "Pages" } |-> IF k = "Topic" THEN Art ELSE << "1" >> ]
    /\ page = 3

(* C2: once the document of valid records is written, its page count is the sum of
   their Pages, the sum 0 included. *)
C2_PageCountIsSum ==
    (Finished /\ \A i \in 1..Len(topics) : ValidRecord(topics[i]))
        => page = Cum(topics, Len(topics))

(* C3: only header() writes the committed label, copying the pending one; set_topic
   leaves the committed label and the drawn pages alone; footer() draws the committed
   label; so the committed label stays that of the open page's header. *)
C3_CommittedLabelFrame ==
    /\ [][ /\ _page_topic' # _page_topic => HeaderStep
           /\ HeaderStep => _page_topic' = _current_topic /\ _current_topic' = _current_topic
           /\ SetTopicStep =>
                 /\ _current_topic' = topics[idx]["Topic"]
                 /\ _page_topic' = _page_topic
                 /\ log' = log
                 /\ page' = page
           /\ FooterStep =>
                 /\ log'[Len(log')].txt = Lower(_page_topic)
                 /\ _page_topic' = _page_topic
                 /\ _current_topic' = _current_topic ]_vars
    /\ [](page > 0 => \A e \in Events("header", page) : log[e].txt = _page_topic)

\* the pending label has moved on to the next record while the footer of the open page
\* is still to come
C3_Witness ==
    /\ pc = "add_page"
    /\ page > 0
    /\ Events("footer", page) = { }
    /\ _current_topic # _page_topic

(* C4: a non-numeric Pages value anywhere in the records makes the run fail with no
   page emitted. *)
C4_NoPageBeforeMalformedError ==
    (\E i \in 1..Len(topics) : NonNumericPages(topics[i]))
        => /\ page = 0
           /\ log = << >>
           /\ pc = "done" => exc # NoExc

(* C5: generate_notebook_pdf raises ValueError for no records and KeyError for a
   record lacking a key, and then there is no renderer, no page and no output file. *)
C5_ValidateBeforeAct ==
    called =>
        /\ topics = << >> =>
              /\ exc = [ type |-> "ValueError", line |-> 171 ]
              /\ NoEffect
              /\ pc \in { "raised", "done" }
              /\ (pc = "done" /\ entry = "generate") => propagated
        /\ (\E i \in 1..Len(topics) : ~ HasKeys(topics[i])) =>
              /\ exc = [ type |-> "KeyError", line |-> 178 ]
              /\ NoEffect
              /\ pc \in { "raised", "done" }
              /\ (pc = "done" /\ entry = "generate") => propagated

\* a direct call whose third record lacks a key, after two records with pages, has raised
C5_Witness ==
    /\ entry = "generate"
    /\ pc = "done"
    /\ propagated
    /\ Len(topics) = 3
    /\ PagesDue(topics[1]) > 0
    /\ PagesDue(topics[2]) > 0
    /\ ~ HasKeys(topics[3])

(* C6: no page is emitted for a record whose Pages is 0, the page count does not move
   while the loop is at it, and its Topic is in no header and no footer unless a
   record with pages has the same label. *)
C6_ZeroPagesRecordAbsent ==
    \A i \in 1..Len(topics) :
        (HasKeys(topics[i]) /\ ParseInt(topics[i]["Pages"]).ok
            /\ ParseInt(topics[i]["Pages"]).val = 0) =>
           /\ \A e \in 1..Len(log) : log[e].rec # i
           /\ (idx = i /\ pc \in { "pages", "add_page", "begin_page", "loop" })
                 => page = Cum(topics, i - 1)
           /\ (\A j \in 1..Len(topics) :
                  (PagesDue(topics[j]) > 0 /\ HasKeys(topics[j])) =>
                      topics[j]["Topic"] # topics[i]["Topic"])
                 => \A e \in 1..Len(log) :
                       log[e].kind = "header" => log[e].txt # topics[i]["Topic"]
           /\ (\A j \in 1..Len(topics) :
                  (PagesDue(topics[j]) > 0 /\ HasKeys(topics[j])) =>
                      Lower(topics[j]["Topic"]) # Lower(topics[i]["Topic"]))
                 => \A e \in 1..Len(log) :
                       log[e].kind = "footer" => log[e].txt # Lower(topics[i]["Topic"])

\* a finished document whose middle record, the only Art, has Pages 0
C6_Witness ==
    /\ Finished
    /\ Len(topics) = 3
    /\ PagesDue(topics[1]) > 0 /\ topics[1]["Topic"] = Math
    /\ topics[2]["Pages"] = << "0" >> /\ topics[2]["Topic"] = Art
    /\ PagesDue(topics[3]) > 0 /\ topics[3]["Topic"] = Math

(* C7: the records load_topics_from_csv returns all have a Topic and a Pages that is a
   non-negative integer. *)
C7_LoaderRejectsMalformed ==
    (entry = "main" /\ pc = "generate") => \A i \in 1..Len(topics) : ValidRecord(topics[i])

(* C8: when main's input file is missing, the loader raises FileNotFoundError,
   generate_notebook_pdf is not called, nothing is emitted or written, and main
   reports the error without letting it out. *)
C8_MissingResource ==
    (entry = "main" /\ file.status = "missing") =>
        /\ ~ called
        /\ NoEffect
        /\ ~ propagated
        /\ pc \in { "main", "raised", "done" }
        /\ pc # "main" => exc = [ type |-> "FileNotFoundError", line |-> 40 ]
        /\ pc = "done" => diag = "not_found"

\* main has ended on a missing file
C8_Witness == entry = "main" /\ file.status = "missing" /\ pc = "done" /\ diag = "not_found"

(* C9: output is called at most once and after every page of every record; whenever
   generate_notebook_pdf failed no output file is in place; a write failure is not
   reported as success. *)
C9_SerializeOnceNoFileOnFailure ==
    /\ outputCalls <= 1
    /\ outputCalls > 0 => idx = Len(topics) /\ page >= Cum(topics, Len(topics))
    /\ exc # NoExc => outfile = "absent"
    /\ (exc.type = "RuntimeError" /\ pc = "done") =>
          /\ diag # "success"
          /\ entry = "generate" => propagated

(* C10: every page has exactly one header; its footer, at most one, comes after it and
   before the header of the next page; what was drawn is never undone; a successful
   run has drawn the footer of every page. *)
C10_LabelLifecycle ==
    /\ [](/\ \A e \in 1..Len(log) : log[e].page \in 1..page
          /\ \A k \in 1..page :
                /\ Cardinality(Events("header", k)) = 1
                /\ Cardinality(Events("footer", k)) <= 1
                /\ \A h \in Events("header", k) : \A f \in Events("footer", k) : h < f
                /\ k < page =>
                      /\ Cardinality(Events("footer", k)) = 1
                      /\ \A f \in Events("footer", k) :
                            \A h \in Events("header", k + 1) : f < h
                /\ (pc \in { "returned", "done" } /\ exc = NoExc /\ called) =>
                      Cardinality(Events("footer", k)) = 1)
    /\ [][ Len(log') >= Len(log) /\ SubSeq(log', 1, Len(log)) = log ]_vars

\* a successful run over two topics is over, three pages drawn
C10_Witness ==
    /\ pc = "done"
    /\ called
    /\ exc = NoExc
    /\ page = 3
    /\ \E e \in 1..Len(log) : log[e].txt = Math
    /\ \E e \in 1..Len(log) : log[e].txt = Art

====
